---- MODULE Spec2Model ----
(***************************************************************************)
(* VideoWorkerService: the accumulate-then-build pipeline of main.py,      *)
(* services/media_creator.py and services/redis_service.py.                *)
(*                                                                         *)
(* One asyncio event loop runs the subscriber task (RedisSubscriber._loop  *)
(* and, inside it, VideoMaker._handle_payload) and the callers of          *)
(* VideoMaker.stop.  A ThreadPoolExecutor runs _generate_video_sync and    *)
(* R2UploaderService.upload_video.  Every event-loop action below is the   *)
(* code between two suspension points (await); every worker-thread action  *)
(* is one access to the state the threads share with the loop (the image   *)
(* directory, the video directory, video_generation_lock).                 *)
(*                                                                         *)
(* Spec is the whole program.  LiveSpec is the program with no signal and  *)
(* fair scheduling.  OrderSpec follows the file names of the images and    *)
(* the order of a batch.  CoordSpec calls generate_and_upload_video        *)
(* whatever the image directory holds.                                     *)
(***************************************************************************)
EXTENDS Integers, Sequences, FiniteSets, TLC

\* MediaService.min_images, scaled down (main.py passes 10).
MinImages == 2
\* Messages published on the channel in one run.
MaxMsgs == 4
\* Messages buffered by the pubsub connection and not yet dispatched.
MaxInbox == 2
\* ThreadPoolExecutor(max_workers=2).
MaxWorkers == 2
\* Calls of VideoMaker.stop in one run.
NumStoppers == 2
\* Seconds the wall clock advances in one run (OrderSpec).
MaxClock == 2
\* Distinct values uuid.uuid4().hex takes in one run (OrderSpec).
MaxUuid == 3

MsgIds == 1..MaxMsgs
JobIds == 1..MaxMsgs
Workers == 1..MaxWorkers
Stoppers == 1..NumStoppers

\* What an inbound message is to _handle_message and _handle_payload:
\*   "badjson"      json.loads raises JSONDecodeError
\*   "wrong_type"   payload["type"] is not "job_vacancy"
\*   "not_vacancy"  extracted_data is missing or its is_job_vacancy is false
\*   "no_image"     the image field is empty
\*   "invalid"      passes the filter chain, _validate_image returns None
\*   "valid"        passes the filter chain and _validate_image
Kinds == {"badjson", "wrong_type", "not_vacancy", "no_image", "invalid", "valid"}

VARIABLES
    inbox,          \* messages delivered by pubsub.listen() and not yet dispatched
    nArrived,       \* messages published so far (a message's id and timestamp)
    store,          \* image_dir: ids of the image files present
    videos,         \* video_dir: ids of the jobs whose artifact file is present
    lock,           \* video_generation_lock is held
    pool,           \* executor work items, per worker
    hpc,            \* where the subscriber task is suspended
    hmsg,           \* the message the handler is processing (0: none)
    hfut,           \* the work item the handler awaits (0: none)
    hjob,           \* the job whose video_path the handler holds (0: none)
    hkind,          \* history: the kind of the message the handler is processing
    hbefore,        \* history: the image count when that handler was entered
    task,           \* RedisSubscriber.task
    signalled,      \* main()'s shutdown_event (set by SIGTERM/SIGINT)
    shutdown_event, \* VideoMaker.shutdown_event
    shutdown_lock,  \* VideoMaker.shutdown_lock: the stop() call holding it (0: free)
    stopped,        \* VideoMaker.stopped
    spc,            \* where each stop() call is
    pubsub,         \* "subscribed" | "closed"
    executor,       \* "open" | "shutdown"
    redis,          \* "open" | "closed"
    jobs,           \* history: one record per submitted _generate_video_sync
    outbox,         \* history: video_ready events published
    arrivedDuring,  \* history: per message, the job in flight when it arrived
    saved,          \* history: ids of the images ever written to image_dir
    dropped,        \* history: the filter chain dropped the message dispatched last
    steps,          \* history: teardown steps performed by each stop() call
    clock,          \* int(time.time()): the wall clock in whole seconds
    fname,          \* per image, the file name save_image gave it: <<second, uuid>>
    listing         \* the list of images _generate_video_sync last built its clips from

vars == <<inbox, nArrived, store, videos, lock, pool, hpc, hmsg, hfut, hjob,
          hkind, hbefore, task, signalled, shutdown_event, shutdown_lock, stopped, spc,
          pubsub, executor, redis, jobs, outbox, arrivedDuring, saved, dropped,
          steps, clock, fname, listing>>

loopVars == <<inbox, hpc, hmsg, hfut, hjob, hkind, hbefore, task>>
stopVars == <<signalled, shutdown_event, shutdown_lock, stopped, spc,
              pubsub, executor, redis, steps>>
histVars == <<jobs, outbox, arrivedDuring, saved>>
\* File names decide only the order of a snapshot.  Spec identifies an image
\* file with the message that brought it and leaves the names out; OrderSpec
\* follows the names and the order.
nameVars == <<clock, fname, listing>>

NoTask == [fn |-> "none", st |-> "free", job |-> 0, images |-> {}, awaited |-> FALSE]
NoSteps == [flag |-> 0, sub |-> 0, drain |-> 0, close |-> 0]

\* The state after VideoMaker.start, but for the image directory.
InitRest ==
    /\ inbox = <<>>
    /\ nArrived = 0
    /\ videos = {}
    /\ lock = FALSE
    /\ pool = [w \in Workers |-> NoTask]
    /\ hpc = "listen"
    /\ hmsg = 0
    /\ hfut = 0
    /\ hjob = 0
    /\ hkind = "none"
    /\ hbefore = 0
    /\ task = "running"
    /\ signalled = FALSE
    /\ shutdown_event = FALSE
    /\ shutdown_lock = 0
    /\ stopped = FALSE
    /\ spc = [s \in Stoppers |-> "idle"]
    /\ pubsub = "subscribed"
    /\ executor = "open"
    /\ redis = "open"
    /\ jobs = <<>>
    /\ outbox = <<>>
    /\ arrivedDuring = [m \in MsgIds |-> 0]
    /\ dropped = FALSE
    /\ steps = [s \in Stoppers |-> NoSteps]
    /\ clock = 0
    /\ fname = [m \in MsgIds |-> <<>>]
    /\ listing = <<>>

\* The service starts on an empty image directory.
Init ==
    /\ store = {}
    /\ saved = {}
    /\ InitRest

----------------------------------------------------------------------------
(* MediaService: the asset store and the threshold                          *)

\* get_images: every image file of the directory (no slice, no limit).
GetImages(dir) == dir

\* should_generate_video with ">" for ">=".
ShouldGenerateVideoStrict(dir) == Cardinality(GetImages(dir)) > MinImages

\* should_generate_video without the comparison: every count passes.
ShouldGenerateVideoAlways(dir) == TRUE

\* should_generate_video: count >= min_images.
ShouldGenerateVideo(dir) == Cardinality(GetImages(dir)) >= MinImages

\* _generate_video_sync without its _cleanup_images call: the files stay.
CleanupImagesSkipped(images) == store

\* _cleanup_images(images): os.remove of each file of the snapshot.
CleanupImages(images) == store \ images

\* _cleanup_videos with the os.remove dropped: the file is left in place.
CleanupVideosNoRemove(path) == videos

\* _cleanup_videos(video_path): os.remove if the file exists.
CleanupVideos(path) == videos \ {path}

----------------------------------------------------------------------------
(* The worker pool                                                          *)

Finished == {"done_none", "done_path", "done_url", "raised"}

\* The jobs that have a work item in the pool: from the handler's submit
\* until the handler has taken the result (or, once the handler is gone,
\* until the thread returns).
InFlight == {pool[w].job : w \in {v \in Workers : pool[v].fn # "none"}}

InFlightJob == IF InFlight = {} THEN 0 ELSE CHOOSE j \in InFlight : \A k \in InFlight : j <= k

\* executor.submit: the work item goes to the first idle worker.
HasFreeWorker == \E w \in Workers : pool[w].fn = "none"
FreeWorker == CHOOSE w \in Workers : pool[w].fn = "none" /\ \A v \in Workers : v < w => pool[v].fn # "none"

\* A thread returns or raises: the result stays for the awaiting coroutine;
\* the result of a work item nobody awaits any more is dropped.
Finish(w, st) ==
    IF pool[w].awaited
    THEN [pool EXCEPT ![w].st = st, ![w].images = {}]
    ELSE [pool EXCEPT ![w] = NoTask]

\* The result of the thread never reaches the event loop: the coroutine is
\* not woken.
FutureDoneNever(w) == FALSE

\* run_in_executor without the await: the coroutine does not wait for the thread.
FutureDoneNoAwait(w) == TRUE

\* await loop.run_in_executor(...): the coroutine resumes when the thread
\* has returned or raised.
FutureDone(w) == pool[w].st \in Finished


\* A thread takes the work item (the future is running and can no longer be
\* cancelled): _generate_video_sync is at "with self.video_generation_lock",
\* upload_video at open(file_path).
TaskStart(w) ==
    /\ pool[w].st = "pending"
    /\ pool' = [pool EXCEPT ![w].st = "started"]
    /\ UNCHANGED <<store, videos, lock, nArrived, dropped>>
    /\ UNCHANGED <<loopVars, stopVars, histVars>>
    /\ UNCHANGED nameVars

\* _generate_video_sync without the re-check: any snapshot is built from.
BelowMinimumIgnored(images) == FALSE

\* _generate_video_sync: "if len(images) < self.min_images".
BelowMinimum(images) == Cardinality(images) < MinImages

\* _generate_video_sync: acquire the lock, snapshot the directory, re-check
\* the threshold (below it: return None and release the lock).
GenerateVideoSnapshot(w) ==
    /\ pool[w].fn = "build"
    /\ pool[w].st = "started"
    /\ ~lock
    /\ LET images == GetImages(store)
           j == pool[w].job
       IN  IF BelowMinimum(images)
           THEN /\ pool' = Finish(w, "done_none")
                /\ UNCHANGED <<lock, jobs>>
           ELSE /\ lock' = TRUE
                /\ pool' = [pool EXCEPT ![w].st = "building", ![w].images = images]
                /\ jobs' = [jobs EXCEPT ![j].batch = images, ![j].started = TRUE]
    /\ UNCHANGED <<store, videos, nArrived, dropped, outbox, arrivedDuring, saved>>
    /\ UNCHANGED <<loopVars, stopVars>>
    /\ UNCHANGED nameVars

\* acquire() and release() in place of the with block: an exception leaves
\* the lock held.
WithLockExitNoRelease(raised) == raised

\* "with self.video_generation_lock": the lock after the block is left, by a
\* return or by an exception.
WithLockExit(raised) == FALSE

\* What the clip loop, concatenate_videoclips and write_videofile can do:
\* write the file, raise before the output file exists, or raise after it
\* was created (a partial file).
BuildOutcomes == {"ok", "raise_early", "raise_partial"}

\* _generate_video_sync: build the clips and write the artifact.  An exception
\* leaves through the finally block (clips closed) and the with block (lock
\* released); nothing removes the images or the output file.
GenerateVideoWrite(w) ==
    /\ pool[w].fn = "build"
    /\ pool[w].st = "building"
    /\ \E o \in BuildOutcomes :
        LET j == pool[w].job
        IN  IF o = "ok"
            THEN /\ videos' = videos \cup {j}
                 /\ pool' = [pool EXCEPT ![w].st = "written"]
                 /\ UNCHANGED <<lock, jobs>>
            ELSE /\ videos' = IF o = "raise_partial" THEN videos \cup {j} ELSE videos
                 /\ pool' = Finish(w, "raised")
                 /\ lock' = WithLockExit(TRUE)
                 /\ jobs' = [jobs EXCEPT ![j].build = "failed"]
    /\ UNCHANGED <<store, nArrived, dropped, outbox, arrivedDuring, saved>>
    /\ UNCHANGED <<loopVars, stopVars>>
    /\ UNCHANGED nameVars

\* _generate_video_sync: after write_videofile, _cleanup_images(images),
\* return output_path, release the lock.
GenerateVideoCleanup(w) ==
    /\ pool[w].fn = "build"
    /\ pool[w].st = "written"
    /\ store' = CleanupImages(pool[w].images)
    /\ lock' = WithLockExit(FALSE)
    /\ pool' = Finish(w, "done_path")
    /\ jobs' = [jobs EXCEPT ![pool[w].job].build = "ok",
                            ![pool[w].job].deleted = pool[w].images]
    /\ UNCHANGED <<videos, nArrived, dropped, outbox, arrivedDuring, saved>>
    /\ UNCHANGED <<loopVars, stopVars>>
    /\ UNCHANGED nameVars

\* upload_video: open(file_path, "rb") raises when the file is gone.
UploadVideoOpen(w) ==
    /\ pool[w].fn = "upload"
    /\ pool[w].st = "started"
    /\ IF pool[w].job \in videos
       THEN /\ pool' = [pool EXCEPT ![w].st = "reading"]
            /\ UNCHANGED jobs
       ELSE /\ pool' = Finish(w, "raised")
            /\ jobs' = [jobs EXCEPT ![pool[w].job].upload = "failed"]
    /\ UNCHANGED <<store, videos, lock, nArrived, dropped, outbox, arrivedDuring, saved>>
    /\ UNCHANGED <<loopVars, stopVars>>
    /\ UNCHANGED nameVars

\* upload_video: put_object returns (the public URL is returned, never an
\* empty string) or raises.
UploadVideoPut(w) ==
    /\ pool[w].fn = "upload"
    /\ pool[w].st = "reading"
    /\ \E ok \in BOOLEAN :
        /\ pool' = Finish(w, IF ok THEN "done_url" ELSE "raised")
        /\ jobs' = [jobs EXCEPT ![pool[w].job].upload = IF ok THEN "ok" ELSE "failed"]
    /\ UNCHANGED <<store, videos, lock, nArrived, dropped, outbox, arrivedDuring, saved>>
    /\ UNCHANGED <<loopVars, stopVars>>
    /\ UNCHANGED nameVars

----------------------------------------------------------------------------
(* The subscriber task: RedisSubscriber._loop and VideoMaker._handle_payload *)

\* The message msg is delivered to the subscribed pubsub and buffered.
Deliver(msg) ==
    /\ pubsub = "subscribed"
    /\ nArrived < MaxMsgs
    /\ Len(inbox) < MaxInbox
    /\ nArrived' = nArrived + 1
    /\ inbox' = Append(inbox, msg)
    /\ arrivedDuring' = [arrivedDuring EXCEPT ![nArrived + 1] = InFlightJob]
    /\ UNCHANGED <<store, videos, lock, pool, hpc, hmsg, hfut, hjob, hkind, hbefore, task>>
    /\ UNCHANGED <<stopVars, jobs, outbox, saved, dropped>>
    /\ UNCHANGED nameVars

\* A message is published on the channel while the pubsub is subscribed.
Arrive(k) == Deliver([id |-> nArrived + 1, kind |-> k])

\* The handler returns (or its exception is logged by "except Exception"):
\* the loop is back at "async for message in self.pubsub.listen()".
HandlerReturn ==
    /\ hpc' = "listen"
    /\ hmsg' = 0
    /\ hfut' = 0
    /\ hjob' = 0

\* generate_and_upload_video up to its first await: _generate_video_sync is
\* submitted to the executor and the coroutine awaits its future.
GenerateAndUploadVideo(m) ==
    /\ HasFreeWorker
    /\ pool' = [pool EXCEPT ![FreeWorker] =
                  [fn |-> "build", st |-> "pending", job |-> Len(jobs) + 1,
                   images |-> {}, awaited |-> TRUE]]
    /\ jobs' = Append(jobs, [trigger |-> m, batch |-> {}, started |-> FALSE,
                             build |-> "none", upload |-> "none",
                             coord |-> "running", deleted |-> {},
                             pub |-> "none"])
    /\ hpc' = "await_build"
    /\ hmsg' = m
    /\ hfut' = FreeWorker
    /\ hjob' = 0

\* _handle_payload after save_image: the threshold check on the directory as
\* it is now, whatever save_image returned.
CheckThreshold(m, dir) ==
    IF ShouldGenerateVideo(dir)
    THEN GenerateAndUploadVideo(m)
    ELSE HandlerReturn /\ UNCHANGED <<pool, jobs>>

\* _handle_message: json.loads(raw_data) returns a payload or raises.
JsonLoads(k) == k # "badjson"

\* The filter chain of _handle_payload, in the order of the code.
TypeIsJobVacancy(k) == k # "wrong_type"
ExtractedIsJobVacancy(k) == k # "not_vacancy"
\* The filter chain without its last test: an empty image field goes on to save_image.
HasImageUnchecked(k) == TRUE

HasImage(k) == k # "no_image"
PassesFilter(k) ==
    /\ TypeIsJobVacancy(k)
    /\ ExtractedIsJobVacancy(k)
    /\ HasImage(k)

\* _validate_image returns the decoded bytes (not None).
ValidateImage(k) == k = "valid"

\* _handle_message without its two except clauses: the exception reaches _loop.
HandlerErrorEscapes == FALSE

\* _handle_message: "except json.JSONDecodeError" and "except Exception" log
\* the error and return to _loop.
HandlerErrorCaught == TRUE

\* The history of the running handler: kept while it is suspended, dropped
\* when it has returned or the task has ended.
HandlerHistory ==
    /\ hkind' = IF hpc' \in {"listen", "dead"} THEN "none" ELSE hkind
    /\ hbefore' = IF hpc' \in {"listen", "dead"} THEN 0 ELSE hbefore

\* _loop takes the next message: the shutdown flag, then _handle_message and
\* _handle_payload up to the first await (the filter chain, _validate_image).
LoopNext ==
    /\ task = "running"
    /\ hpc = "listen"
    /\ inbox # <<>>
    /\ inbox' = Tail(inbox)
    /\ LET m == Head(inbox)
       IN  IF shutdown_event
           THEN /\ task' = "finished"
                /\ hpc' = "dead"
                /\ UNCHANGED <<hmsg, hfut, hjob, pool, jobs>>
           ELSE IF ~JsonLoads(m.kind)
           THEN IF HandlerErrorCaught
                THEN UNCHANGED <<task, hpc, hmsg, hfut, hjob, pool, jobs>>
                ELSE /\ task' = "failed"
                     /\ hpc' = "dead"
                     /\ UNCHANGED <<hmsg, hfut, hjob, pool, jobs>>
           ELSE /\ UNCHANGED task
                /\ IF ~PassesFilter(m.kind)
                   THEN UNCHANGED <<hpc, hmsg, hfut, hjob, pool, jobs>>
                   ELSE IF ValidateImage(m.kind)
                   THEN /\ hpc' = "saving"
                        /\ hmsg' = m.id
                        /\ UNCHANGED <<hfut, hjob, pool, jobs>>
                   ELSE CheckThreshold(m.id, store)
    /\ dropped' = (~shutdown_event /\ JsonLoads(Head(inbox).kind) /\ ~PassesFilter(Head(inbox).kind))
    /\ hkind' = IF hpc' \in {"listen", "dead"} THEN "none" ELSE Head(inbox).kind
    /\ hbefore' = IF hpc' \in {"listen", "dead"} THEN 0 ELSE Cardinality(GetImages(store))
    /\ UNCHANGED <<store, videos, lock, nArrived, outbox, arrivedDuring, saved>>
    /\ UNCHANGED stopVars
    /\ UNCHANGED nameVars

\* save_image: the file is written; then the threshold check.
SaveImage ==
    /\ task = "running"
    /\ hpc = "saving"
    /\ store' = store \cup {hmsg}
    /\ saved' = saved \cup {hmsg}
    /\ CheckThreshold(hmsg, store')
    /\ HandlerHistory
    /\ UNCHANGED <<inbox, task, videos, lock, nArrived, dropped, outbox, arrivedDuring>>
    /\ UNCHANGED stopVars
    /\ UNCHANGED nameVars

\* The coroutine gives up a work item: a finished one is taken, an unfinished
\* one runs on with nobody awaiting it.
Release(w) ==
    IF pool[w].st \in Finished
    THEN [pool EXCEPT ![w] = NoTask]
    ELSE [pool EXCEPT ![w].awaited = FALSE]

\* generate_and_upload_video resumes from _generate_video_file_async: a path
\* goes on to the upload (submitted to the same executor); None returns None;
\* an exception of the build leaves through _handle_payload's except.
BuildReturn ==
    /\ task = "running"
    /\ hpc = "await_build"
    /\ FutureDone(hfut)
    /\ LET t == pool[hfut]
       IN  IF t.st = "done_path"
           THEN /\ pool' = [pool EXCEPT ![hfut] =
                              [fn |-> "upload", st |-> "pending", job |-> t.job,
                               images |-> {}, awaited |-> TRUE]]
                /\ hpc' = "await_upload"
                /\ hjob' = t.job
                /\ UNCHANGED <<hmsg, hfut, jobs>>
           ELSE /\ pool' = Release(hfut)
                /\ jobs' = [jobs EXCEPT ![t.job].coord =
                              IF t.st = "raised" THEN "raised" ELSE "nothing"]
                /\ HandlerReturn
    /\ HandlerHistory
    /\ UNCHANGED <<inbox, task, store, videos, lock, nArrived, dropped, outbox, arrivedDuring, saved>>
    /\ UNCHANGED stopVars
    /\ UNCHANGED nameVars

\* generate_and_upload_video resumes from the upload: the finally block
\* removes the local file on every exit; a URL goes on to publish.
UploadReturn ==
    /\ task = "running"
    /\ hpc = "await_upload"
    /\ FutureDone(hfut)
    /\ videos' = CleanupVideos(hjob)
    /\ pool' = Release(hfut)
    /\ IF pool[hfut].st = "done_url"
       THEN /\ hpc' = "publishing"
            /\ hfut' = 0
            /\ jobs' = [jobs EXCEPT ![hjob].coord = "url"]
            /\ UNCHANGED <<hmsg, hjob>>
       ELSE /\ jobs' = [jobs EXCEPT ![hjob].coord =
                          IF pool[hfut].st = "raised" THEN "raised" ELSE "nothing"]
            /\ HandlerReturn
    /\ HandlerHistory
    /\ UNCHANGED <<inbox, task, store, lock, nArrived, dropped, outbox, arrivedDuring, saved>>
    /\ UNCHANGED stopVars
    /\ UNCHANGED nameVars

\* video_payload with the timestamp of the newest message on the channel
\* instead of the one being handled.
VideoPayloadNewest(m, url) == [timestamp |-> nArrived, path |-> url]

\* video_payload: "timestamp" is payload.get("timestamp") of the message being
\* handled, video.path is the URL generate_and_upload_video returned.
VideoPayload(m, url) == [timestamp |-> m, path |-> url]

\* publisher.publish(video_payload): redis.publish sends the event, or raises
\* and publish logs the error and returns False; the handler returns either way.
Publish ==
    /\ task = "running"
    /\ hpc = "publishing"
    /\ \E ok \in BOOLEAN :
        /\ outbox' = IF ok THEN Append(outbox, VideoPayload(hmsg, hjob)) ELSE outbox
        /\ jobs' = [jobs EXCEPT ![hjob].pub = IF ok THEN "sent" ELSE "failed"]
    /\ HandlerReturn
    /\ HandlerHistory
    /\ UNCHANGED <<inbox, task, store, videos, lock, pool, nArrived, dropped, arrivedDuring, saved>>
    /\ UNCHANGED stopVars
    /\ UNCHANGED nameVars

\* task.cancel() reaches the task: CancelledError is raised at the await it
\* is suspended in and passes every "except Exception".  The future of a
\* work item no thread has taken is cancelled; a running thread runs on.
\* Only the upload is awaited inside try/finally (_cleanup_videos).  A write
\* or a publish that was under way may or may not have gone through.
LoopCancelled ==
    /\ task = "cancel_requested"
    /\ task' = "cancelled"
    /\ hpc' = "dead"
    /\ hmsg' = 0
    /\ hfut' = 0
    /\ hjob' = 0
    /\ \E through \in BOOLEAN :
        /\ store' = IF hpc = "saving" /\ through THEN store \cup {hmsg} ELSE store
        /\ saved' = IF hpc = "saving" /\ through THEN saved \cup {hmsg} ELSE saved
        /\ outbox' = IF hpc = "publishing" /\ through
                     THEN Append(outbox, VideoPayload(hmsg, hjob))
                     ELSE outbox
        /\ IF hpc \in {"await_build", "await_upload"}
           THEN /\ pool' = IF pool[hfut].st = "pending"
                           THEN [pool EXCEPT ![hfut] = NoTask]
                           ELSE Release(hfut)
                /\ jobs' = [jobs EXCEPT ![pool[hfut].job].coord = "cancelled"]
           ELSE /\ UNCHANGED pool
                /\ jobs' = IF hpc = "publishing" /\ through
                           THEN [jobs EXCEPT ![hjob].pub = "sent"]
                           ELSE jobs
    /\ videos' = IF hpc = "await_upload" THEN CleanupVideos(hjob) ELSE videos
    /\ HandlerHistory
    /\ UNCHANGED <<inbox, lock, nArrived, dropped, arrivedDuring>>
    /\ UNCHANGED stopVars
    /\ UNCHANGED nameVars

----------------------------------------------------------------------------
(* Shutdown: main(), VideoMaker.stop, RedisSubscriber.stop, cleanup          *)

\* SIGTERM/SIGINT: signal_handler sets main()'s shutdown_event.
Signal ==
    /\ ~signalled
    /\ signalled' = TRUE
    /\ UNCHANGED <<store, videos, lock, pool, nArrived, dropped>>
    /\ UNCHANGED <<loopVars, histVars>>
    /\ UNCHANGED <<shutdown_event, shutdown_lock, stopped, spc, pubsub, executor, redis, steps>>
    /\ UNCHANGED nameVars

\* stop without the flag check: the flag is not consulted.
AlreadyStoppedIgnored == FALSE

\* stop: "if self.stopped: return".
AlreadyStopped == stopped

Did(s, k) == [steps EXCEPT ![s][k] = @ + 1]

\* stop, from the lock to the first await: the flag check, stopped = True,
\* shutdown_event.set(), then RedisSubscriber.stop up to "await self.task"
\* (or, the task being done, up to "await self.pubsub.unsubscribe").
StopEnter(s) ==
    IF AlreadyStopped
    THEN /\ spc' = [spc EXCEPT ![s] = "done"]
         /\ UNCHANGED <<shutdown_lock, stopped, shutdown_event, steps, task>>
    ELSE /\ shutdown_lock' = s
         /\ stopped' = TRUE
         /\ shutdown_event' = TRUE
         /\ steps' = [steps EXCEPT ![s].flag = @ + 1, ![s].sub = @ + 1]
         /\ IF task \in {"running", "cancel_requested"}
            THEN /\ task' = "cancel_requested"
                 /\ spc' = [spc EXCEPT ![s] = "await_task"]
            ELSE /\ spc' = [spc EXCEPT ![s] = "unsub"]
                 /\ UNCHANGED task

\* stop() is called (main leaves "async with VideoMaker()" once signalled):
\* "async with self.shutdown_lock" is entered at once when the lock is free
\* and waited for otherwise.  The calls are numbered in the order in which
\* they are made.
StopCall(s) ==
    /\ signalled
    /\ spc[s] = "idle"
    /\ \A t \in Stoppers : t < s => spc[t] # "idle"
    /\ IF shutdown_lock = 0
       THEN StopEnter(s)
       ELSE /\ spc' = [spc EXCEPT ![s] = "lock"]
            /\ UNCHANGED <<shutdown_lock, stopped, shutdown_event, steps, task>>
    /\ UNCHANGED <<store, videos, lock, pool, nArrived, dropped, inbox, hpc, hmsg, hfut, hjob, hkind, hbefore>>
    /\ UNCHANGED <<signalled, pubsub, executor, redis>>
    /\ UNCHANGED histVars
    /\ UNCHANGED nameVars

\* A stop() call that waited for shutdown_lock gets it.
StopLockAcquired(s) ==
    /\ spc[s] = "lock"
    /\ shutdown_lock = 0
    /\ StopEnter(s)
    /\ UNCHANGED <<store, videos, lock, pool, nArrived, dropped, inbox, hpc, hmsg, hfut, hjob, hkind, hbefore>>
    /\ UNCHANGED <<signalled, pubsub, executor, redis>>
    /\ UNCHANGED histVars
    /\ UNCHANGED nameVars

\* RedisSubscriber.stop without "await self.task".
TaskDoneNoAwait == TRUE

\* RedisSubscriber.stop: "await self.task" returns when the task has ended.
TaskDone == task \in {"cancelled", "finished", "failed"}

\* RedisSubscriber.stop resumes after "await self.task".
SubscriberTaskAwaited(s) ==
    /\ spc[s] = "await_task"
    /\ TaskDone
    /\ spc' = [spc EXCEPT ![s] = "unsub"]
    /\ UNCHANGED <<store, videos, lock, pool, nArrived, dropped>>
    /\ UNCHANGED <<loopVars, histVars>>
    /\ UNCHANGED <<signalled, shutdown_event, shutdown_lock, stopped, pubsub, executor, redis, steps>>
    /\ UNCHANGED nameVars

\* RedisSubscriber.stop: pubsub.unsubscribe and pubsub.close.  A transport
\* error propagates out of stop(): "async with" releases shutdown_lock and
\* the rest of stop() is skipped.
SubscriberUnsubscribe(s) ==
    /\ spc[s] = "unsub"
    /\ \E ok \in BOOLEAN :
        IF ok
        THEN /\ pubsub' = "closed"
             /\ spc' = [spc EXCEPT ![s] = "drain"]
             /\ UNCHANGED shutdown_lock
        ELSE /\ spc' = [spc EXCEPT ![s] = "raised"]
             /\ shutdown_lock' = 0
             /\ UNCHANGED pubsub
    /\ UNCHANGED <<store, videos, lock, pool, nArrived, dropped>>
    /\ UNCHANGED <<loopVars, histVars>>
    /\ UNCHANGED <<signalled, shutdown_event, stopped, executor, redis, steps>>
    /\ UNCHANGED nameVars

\* executor.shutdown(wait=False): the call returns at once.
PoolDrainedNoWait == TRUE

\* executor.shutdown(wait=True) returns when every submitted work item has
\* run to its end.
PoolDrained == \A w \in Workers : pool[w].fn = "none" \/ pool[w].st \in Finished

\* MediaService.cleanup: executor.shutdown(wait=True) blocks the event loop
\* until the pool is drained.
MediaCleanup(s) ==
    /\ spc[s] = "drain"
    /\ PoolDrained
    /\ executor' = "shutdown"
    /\ steps' = Did(s, "drain")
    /\ spc' = [spc EXCEPT ![s] = "close"]
    /\ UNCHANGED <<store, videos, lock, pool, nArrived, dropped>>
    /\ UNCHANGED <<loopVars, histVars>>
    /\ UNCHANGED <<signalled, shutdown_event, shutdown_lock, stopped, pubsub, redis>>
    /\ UNCHANGED nameVars

\* stop: redis.close_redis(), the lock is released, "Shutdown complete".
CloseRedis(s) ==
    /\ spc[s] = "close"
    /\ redis' = "closed"
    /\ steps' = Did(s, "close")
    /\ shutdown_lock' = 0
    /\ spc' = [spc EXCEPT ![s] = "done"]
    /\ UNCHANGED <<store, videos, lock, pool, nArrived, dropped>>
    /\ UNCHANGED <<loopVars, histVars>>
    /\ UNCHANGED <<signalled, shutdown_event, stopped, pubsub, executor>>
    /\ UNCHANGED nameVars

----------------------------------------------------------------------------

Next ==
    \/ \E k \in Kinds : Arrive(k)
    \/ LoopNext
    \/ SaveImage
    \/ BuildReturn
    \/ UploadReturn
    \/ Publish
    \/ LoopCancelled
    \/ \E w \in Workers : TaskStart(w)
    \/ \E w \in Workers : GenerateVideoSnapshot(w)
    \/ \E w \in Workers : GenerateVideoWrite(w)
    \/ \E w \in Workers : GenerateVideoCleanup(w)
    \/ \E w \in Workers : UploadVideoOpen(w)
    \/ \E w \in Workers : UploadVideoPut(w)
    \/ Signal
    \/ \E s \in Stoppers : StopCall(s)
    \/ \E s \in Stoppers : StopLockAcquired(s)
    \/ \E s \in Stoppers : SubscriberTaskAwaited(s)
    \/ \E s \in Stoppers : SubscriberUnsubscribe(s)
    \/ \E s \in Stoppers : MediaCleanup(s)
    \/ \E s \in Stoppers : CloseRedis(s)

Spec == Init /\ [][Next]_vars

\* The same program with every message stamped on arrival: "late" records
\* that the termination signal had been received when the message arrived.
ArriveStamped(k) == Deliver([id |-> nArrived + 1, kind |-> k, late |-> signalled])

SignalNext ==
    \/ \E k \in Kinds : ArriveStamped(k)
    \/ LoopNext
    \/ SaveImage
    \/ BuildReturn
    \/ UploadReturn
    \/ Publish
    \/ LoopCancelled
    \/ \E w \in Workers : TaskStart(w)
    \/ \E w \in Workers : GenerateVideoSnapshot(w)
    \/ \E w \in Workers : GenerateVideoWrite(w)
    \/ \E w \in Workers : GenerateVideoCleanup(w)
    \/ \E w \in Workers : UploadVideoOpen(w)
    \/ \E w \in Workers : UploadVideoPut(w)
    \/ Signal
    \/ \E s \in Stoppers : StopCall(s)
    \/ \E s \in Stoppers : StopLockAcquired(s)
    \/ \E s \in Stoppers : SubscriberTaskAwaited(s)
    \/ \E s \in Stoppers : SubscriberUnsubscribe(s)
    \/ \E s \in Stoppers : MediaCleanup(s)
    \/ \E s \in Stoppers : CloseRedis(s)

SignalSpec == Init /\ [][SignalNext]_vars

\* A run in which no shutdown is requested: the steps of the subscriber task
\* and of the worker threads only.  The event loop runs a coroutine that can
\* go on, and the pool runs a work item that can go on; nothing is assumed
\* about messages arriving.
LoopStep ==
    \/ LoopNext
    \/ SaveImage
    \/ BuildReturn
    \/ UploadReturn
    \/ Publish

WorkerStep(w) ==
    \/ TaskStart(w)
    \/ GenerateVideoSnapshot(w)
    \/ GenerateVideoWrite(w)
    \/ GenerateVideoCleanup(w)
    \/ UploadVideoOpen(w)
    \/ UploadVideoPut(w)

LiveNext ==
    \/ \E k \in Kinds : Arrive(k)
    \/ LoopStep
    \/ \E w \in Workers : WorkerStep(w)

LiveSpec ==
    /\ Init
    /\ [][LiveNext]_vars
    /\ WF_vars(LoopStep)
    /\ \A w \in Workers : WF_vars(WorkerStep(w))

\* generate_and_upload_video called whatever the directory holds, on a
\* directory that already holds images when the service starts: the caller
\* is a handler that does not ask should_generate_video first.
CallGenerateAndUpload ==
    /\ task = "running"
    /\ hpc = "listen"
    /\ nArrived < MaxMsgs
    /\ nArrived' = nArrived + 1
    /\ GenerateAndUploadVideo(nArrived + 1)
    /\ hkind' = "direct"
    /\ hbefore' = Cardinality(GetImages(store))
    /\ UNCHANGED <<inbox, task, store, videos, lock, outbox, arrivedDuring, saved, dropped>>
    /\ UNCHANGED <<stopVars, nameVars>>

CoordInit ==
    /\ \E dir \in SUBSET MsgIds : store = dir /\ saved = dir
    /\ InitRest

CoordNext ==
    \/ CallGenerateAndUpload
    \/ BuildReturn
    \/ UploadReturn
    \/ Publish
    \/ \E w \in Workers : WorkerStep(w)

CoordSpec == CoordInit /\ [][CoordNext]_vars

----------------------------------------------------------------------------
(* File names and the order of a batch: save_image, get_images and the clip  *)
(* loop of _generate_video_sync, with the names Spec leaves out              *)

Uuids == 1..MaxUuid

\* save_image: f"{int(time.time())}_{uuid.uuid4().hex}.jpg".
FileName(second, uuid) == <<second, uuid>>

\* The names given so far.
NamesInUse == {fname[m] : m \in saved}

\* files.sort(): the paths compared as strings, that is the seconds (decimal,
\* same number of digits) first and the uuid text after them.
NameBefore(a, b) == a[1] < b[1] \/ (a[1] = b[1] /\ a[2] < b[2])

\* get_images: the files of the directory, sorted by name.
RECURSIVE SortedImages(_)
SortedImages(dir) ==
    IF dir = {} THEN <<>>
    ELSE LET first == CHOOSE a \in dir : \A b \in dir \ {a} : NameBefore(fname[a], fname[b])
         IN  <<first>> \o SortedImages(dir \ {first})

\* The wall clock reaches the next second.
ClockTick ==
    /\ clock < MaxClock
    /\ clock' = clock + 1
    /\ UNCHANGED <<nArrived, store, saved, fname, listing, videos, lock, pool>>
    /\ UNCHANGED <<loopVars, stopVars, jobs, outbox, arrivedDuring, dropped>>

\* A handler invocation stores the image of the next message: save_image
\* names the file after the current second and a fresh uuid.
SaveNamedImage ==
    /\ nArrived < MaxMsgs
    /\ \E u \in Uuids :
        /\ FileName(clock, u) \notin NamesInUse
        /\ fname' = [fname EXCEPT ![nArrived + 1] = FileName(clock, u)]
    /\ nArrived' = nArrived + 1
    /\ store' = store \cup {nArrived + 1}
    /\ saved' = saved \cup {nArrived + 1}
    /\ UNCHANGED <<clock, listing, videos, lock, pool>>
    /\ UNCHANGED <<loopVars, stopVars, jobs, outbox, arrivedDuring, dropped>>

\* _generate_video_sync once the threshold is met: images = get_images(), one
\* clip per image in the order of that list, then _cleanup_images(images).
BuildFromListing ==
    /\ ShouldGenerateVideo(store)
    /\ listing' = SortedImages(GetImages(store))
    /\ store' = CleanupImages(GetImages(store))
    /\ UNCHANGED <<clock, fname, nArrived, saved, videos, lock, pool>>
    /\ UNCHANGED <<loopVars, stopVars, jobs, outbox, arrivedDuring, dropped>>

OrderNext ==
    \/ ClockTick
    \/ SaveNamedImage
    \/ BuildFromListing

OrderSpec == Init /\ [][OrderNext]_vars

\* The lifecycle has reached Stopped: a stop() call ran to "Shutdown complete"
\* having performed the teardown.
Stopped == \E s \in Stoppers : spc[s] = "done" /\ steps[s].flag > 0

TypeOK ==
    /\ store \subseteq MsgIds
    /\ videos \subseteq JobIds
    /\ Len(jobs) <= MaxMsgs
    /\ hpc \in {"listen", "saving", "await_build", "await_upload", "publishing", "dead"}
    /\ task \in {"running", "cancel_requested", "cancelled", "finished", "failed"}
    /\ \A s \in Stoppers : spc[s] \in {"idle", "lock", "await_task", "unsub", "drain", "close", "done", "raised"}

----------------------------------------------------------------------------
(* Claims                                                                   *)

JobSet == 1..Len(jobs)

\* A worker thread is inside _generate_video_sync: at the lock, building, or
\* past write_videofile and not yet returned.
InBuild(w) == pool[w].fn = "build" /\ pool[w].st \in {"started", "building", "written"}

\* A worker thread is inside the "with self.video_generation_lock" block.
InCritical(w) == pool[w].fn = "build" /\ pool[w].st \in {"building", "written"}

EventsOf(j) == {i \in 1..Len(outbox) : outbox[i].path = j}

\* The M oldest assets of a directory (all of them when it holds fewer).
OldestM(dir) == {a \in dir : Cardinality({b \in dir : b < a}) < MinImages}

\* C1: in every reachable state at most one worker thread is executing
\* _generate_video_sync, and the lock is held exactly while one is inside
\* its critical section.
C1_AtMostOneBuild ==
    /\ Cardinality({w \in Workers : InBuild(w)}) <= 1
    /\ lock <=> (\E w \in Workers : InCritical(w))

\* C1 witness: a build is executing while further messages wait in the pubsub
\* and the shutdown has already cancelled the subscriber task.
C1_Witness ==
    /\ \E w \in Workers : pool[w].fn = "build" /\ pool[w].st = "building"
    /\ Len(inbox) > 0
    /\ task = "cancelled"

\* C2 (as claimed): every job that starts consumes exactly MinImages assets,
\* the MinImages oldest of the store at the time of its snapshot.
C2_BatchIsExactlyM ==
    /\ \A j \in JobSet : jobs[j].started => Cardinality(jobs[j].batch) = MinImages
    /\ \A w \in Workers : InCritical(w) => pool[w].images = OldestM(store \cup pool[w].images)

\* C3: a message that arrived while job j had a build or an upload in flight
\* is not in j's batch, is not deleted by j, and once saved it stays in the
\* store until a job deletes it (which is never j).
C3_BatchIsSnapshot ==
    \A m \in 1..nArrived :
        LET j == arrivedDuring[m]
        IN  j # 0 =>
              /\ m \notin jobs[j].batch
              /\ m \notin jobs[j].deleted
              /\ (m \in saved /\ (\A k \in JobSet : m \notin jobs[k].deleted)) => m \in store

\* C3 witness: an image arrived during a job whose build succeeded and whose
\* coordinator has returned; the image has been saved and is in the store.
C3_Witness ==
    \E m \in 1..nArrived :
        /\ arrivedDuring[m] # 0
        /\ jobs[arrivedDuring[m]].build = "ok"
        /\ jobs[arrivedDuring[m]].coord \in {"url", "raised"}
        /\ m \in store

\* C4 (as claimed): once the coordinator has returned from a full batch whose
\* build failed, none of the batch is left in the store and no video_ready
\* event was published for it.
C4_BuildFailureDiscardsBatch ==
    \A j \in JobSet :
        (jobs[j].started /\ jobs[j].build = "failed" /\ jobs[j].coord # "running") =>
            /\ jobs[j].batch \cap store = {}
            /\ EventsOf(j) = {}

\* C5 (as claimed): no asset is in the batch of two jobs.
C5_NoAssetInTwoBatches ==
    \A j \in JobSet : \A k \in JobSet :
        j # k => jobs[j].batch \cap jobs[k].batch = {}

\* C6: when the upload of a job failed, no event is ever published for the
\* job and its batch stays out of the store; once the coordinator has
\* returned, the local artifact is gone.
C6_UploadFailureCleansUp ==
    \A j \in JobSet :
        jobs[j].upload = "failed" =>
            /\ EventsOf(j) = {}
            /\ jobs[j].batch \cap store = {}
            /\ jobs[j].coord # "running" => j \notin videos

\* C6 witness: put_object raised after a successful build and the handler has
\* logged the exception.
C6_Witness ==
    \E j \in JobSet :
        /\ jobs[j].build = "ok"
        /\ jobs[j].upload = "failed"
        /\ jobs[j].coord = "raised"

\* C7 (as claimed): once generate_and_upload_video has finished, however it
\* ended, the job's artifact file is not in the video directory.
C7_NoArtifactAfterCoordinator ==
    \A j \in JobSet : jobs[j].coord # "running" => j \notin videos

\* C8 (as claimed): in Stopped, every job that had started has completed its
\* build, and a job whose build succeeded has had its upload run and its
\* local artifact removed.
C8_ShutdownCompletesJob ==
    Stopped =>
        \A j \in JobSet :
            jobs[j].started =>
                /\ jobs[j].build # "none"
                /\ jobs[j].build = "ok" => (jobs[j].upload # "none" /\ j \notin videos)

StepNames == {"flag", "sub", "drain", "close"}
RECURSIVE SumSteps(_, _)
SumSteps(k, n) == IF n = 0 THEN 0 ELSE steps[n][k] + SumSteps(k, n - 1)

\* C9, the part that holds whether or not a step raises: each teardown step
\* is performed at most once over all stop() calls
\* and all by the same call; a stop() call that ran to its end having set
\* the flag performed each step exactly once, and every other stop() call
\* performed none.
C9_ShutdownOnce ==
    /\ \A k \in StepNames : SumSteps(k, NumStoppers) <= 1
    /\ \A s \in Stoppers : \A t \in Stoppers :
          (s # t /\ steps[s].flag > 0) => steps[t] = NoSteps
    /\ \A s \in Stoppers :
          spc[s] = "done" =>
              \/ steps[s] = NoSteps
              \/ \A k \in StepNames : steps[s][k] = 1

\* C9 witness: two stop() calls have returned, one having performed every
\* step and the other none.
C9_Witness ==
    \E s \in Stoppers : \E t \in Stoppers :
        /\ s # t
        /\ spc[s] = "done" /\ (\A k \in StepNames : steps[s][k] = 1)
        /\ spc[t] = "done" /\ steps[t] = NoSteps

TaskEnded == task \in {"cancelled", "finished", "failed"}
NoThreadRunning == \A w \in Workers : pool[w].fn = "none" \/ pool[w].st \in Finished

\* C10: a stop() call is past "await self.task" only when the consume loop
\* has ended; the pool is shut down only after that and with no thread still
\* running; the transport is closed only after the pool is shut down; and
\* Stopped is reached only after all three.
C10_StopOrder ==
    /\ \A s \in Stoppers : spc[s] \in {"unsub", "drain", "close"} => TaskEnded
    /\ executor = "shutdown" => (TaskEnded /\ NoThreadRunning)
    /\ redis = "closed" => executor = "shutdown"
    /\ Stopped => (TaskEnded /\ executor = "shutdown" /\ redis = "closed")

\* C10 witness: Stopped is reached after a shutdown that cancelled the loop
\* while a build was running on the pool.
C10_Witness ==
    /\ Stopped
    /\ \E j \in JobSet : jobs[j].coord = "cancelled" /\ jobs[j].build = "ok"

\* A handler invocation that ended in a failure the handler absorbed: the
\* coordinator raised (build or upload exception) or the publish failed.
FailedHandlers ==
    {jobs[j].trigger : j \in {k \in JobSet : jobs[k].coord = "raised" \/ jobs[k].pub = "failed"}}

\* C11: the consume loop ends only through stop(); a handler invocation that
\* failed has returned to the loop; and whenever the loop is waiting with a
\* message buffered, dispatching that message is possible.
C11_LoopSurvivesHandlerFailure ==
    /\ task # "running" => stopped
    /\ task = "running" => hmsg \notin FailedHandlers
    /\ (task = "running" /\ hpc = "listen" /\ inbox # <<>>) => ENABLED LoopNext

\* C11 witness: a build raised in one handler invocation, the loop is still
\* running with no shutdown, and a later message has been dispatched and its
\* image stored.
C11_Witness ==
    /\ task = "running"
    /\ ~stopped
    /\ \E j \in JobSet :
        /\ jobs[j].build = "failed"
        /\ jobs[j].coord = "raised"
        /\ \E m \in saved : m > jobs[j].trigger

\* The events C12 names: wrong type, extraction missing or not accepted, no image.
FilteredKinds == {"wrong_type", "not_vacancy", "no_image"}

\* The step in which _loop dispatches the message at the head of the buffer.
Dispatch ==
    /\ task = "running"
    /\ hpc = "listen"
    /\ inbox # <<>>
    /\ inbox' = Tail(inbox)

\* C12: the dispatch of an event that the filter chain rejects changes no
\* image and no artifact, submits no work item, starts no job, publishes no
\* event, and the handler has returned when the step ends.
C12_FilteredEventHasNoEffect ==
    [][(Dispatch /\ Head(inbox).kind \in FilteredKinds) =>
         (/\ UNCHANGED <<store, videos, lock, pool, jobs, outbox>>
          /\ hpc' = "listen")]_vars

\* C12 witness: the message dispatched last was dropped by the filter chain
\* while the store held M images left by a failed build, and no job followed.
C12_Witness ==
    /\ dropped
    /\ task = "running"
    /\ hpc = "listen"
    /\ Cardinality(store) >= MinImages
    /\ \A j \in JobSet : jobs[j].coord # "running"

\* The step in which the handler of the message of kind k returns to _loop.
Returns(k) ==
    \/ Dispatch /\ ~shutdown_event /\ Head(inbox).kind = k /\ hpc' = "listen"
    \/ hkind = k /\ hpc # "listen" /\ hpc' = "listen"

\* The image count when the handler that is returning was entered.
CountAtEntry == IF hpc = "listen" THEN Cardinality(store) ELSE hbefore

\* C13 (as claimed): when the handler of an event that passed the filter
\* chain and failed image validation returns, the store holds as many images
\* as when that handler was entered.
C13_InvalidImageLeavesCount ==
    [][Returns("invalid") => Cardinality(store') = CountAtEntry]_vars

\* C14: every published video_ready event names a job whose upload returned
\* a URL to the coordinator, carries that URL as its path, and carries the
\* timestamp of the message whose handler submitted that job.
C14_EventCarriesTriggerAndUrl ==
    \A i \in 1..Len(outbox) :
        /\ outbox[i].path \in JobSet
        /\ jobs[outbox[i].path].upload = "ok"
        /\ jobs[outbox[i].path].coord = "url"
        /\ outbox[i].timestamp = jobs[outbox[i].path].trigger

\* C14 witness: an event is published for a job during which a newer message
\* arrived on the channel.
C14_Witness ==
    \E i \in 1..Len(outbox) :
        \E m \in MsgIds : m > outbox[i].timestamp /\ arrivedDuring[m] = outbox[i].path

\* C15: while fewer than M images have ever been stored, no job has been
\* submitted and every stored image is still in the store (the count is the
\* number of valid images handled); a build work item is on the pool, not yet
\* past its snapshot, only while the store holds at least M images; and every
\* snapshot a build went on with held at least M images.
C15_NoBuildBelowThreshold ==
    /\ Cardinality(saved) < MinImages => (jobs = <<>> /\ store = saved)
    /\ \A w \in Workers :
        (pool[w].fn = "build" /\ pool[w].st \in {"pending", "started"}) =>
            Cardinality(store) >= MinImages
    /\ \A j \in JobSet : jobs[j].started => Cardinality(jobs[j].batch) >= MinImages

\* C15 witness: M - 1 messages were published, all valid, all handled; the
\* loop is waiting with nothing buffered.
C15_Witness ==
    /\ nArrived = MinImages - 1
    /\ saved = 1..nArrived
    /\ Cardinality(store) = MinImages - 1
    /\ inbox = <<>>
    /\ hpc = "listen"
    /\ task = "running"

\* The job submitted by the handler that stored the M-th image of the store.
ThresholdJob(j) ==
    /\ jobs[j].trigger \in jobs[j].batch
    /\ Cardinality(jobs[j].batch) = MinImages

\* The handler invocation that submitted job j has returned to a running loop.
HandlerReturned(j) == task = "running" /\ hmsg # jobs[j].trigger

\* C16 (as claimed): once the handler that stored the M-th image has returned
\* from a job whose build and upload succeeded, exactly one video_ready event
\* of that job is on the channel.
C16_ThresholdBuildPublishesOnce ==
    \A j \in JobSet :
        (ThresholdJob(j) /\ jobs[j].build = "ok" /\ jobs[j].upload = "ok" /\ HandlerReturned(j)) =>
            Cardinality(EventsOf(j)) = 1

\* C16 (amended): from an empty store, the handler that stores the M-th
\* valid image submits job 1, and no handler submits two jobs; when the build
\* and the upload of such a job succeeded, the store is empty while that
\* handler goes on to publish, at most one event of the job is ever on the
\* channel, none if the publish call failed, and exactly one once the handler
\* has returned and the publish call did not fail.
C16_ThresholdBuildPublishesAtMostOnce ==
    /\ (1..MinImages \subseteq saved /\ task = "running") =>
          (Len(jobs) >= 1 /\ jobs[1].trigger = MinImages)
    /\ \A j, k \in JobSet : jobs[j].trigger = jobs[k].trigger => j = k
    /\ \A j \in JobSet :
        (ThresholdJob(j) /\ jobs[j].build = "ok" /\ jobs[j].upload = "ok") =>
            /\ (jobs[j].coord = "url" /\ hmsg = jobs[j].trigger) => store = {}
            /\ Cardinality(EventsOf(j)) <= 1
            /\ jobs[j].pub = "failed" => EventsOf(j) = {}
            /\ (HandlerReturned(j) /\ jobs[j].pub # "failed") => Cardinality(EventsOf(j)) = 1

\* C16 witness: the first M messages were valid, the M-th started job 1,
\* build, upload and publish succeeded, the handler has returned, the store
\* is empty and one event is on the channel.
C16_Witness ==
    /\ Len(jobs) = 1
    /\ ThresholdJob(1)
    /\ jobs[1].trigger = MinImages
    /\ jobs[1].build = "ok"
    /\ jobs[1].upload = "ok"
    /\ jobs[1].pub = "sent"
    /\ HandlerReturned(1)
    /\ store = {}
    /\ Cardinality(EventsOf(1)) = 1

\* C17 (as claimed): the list the clips are built from is in arrival order:
\* an image stored by an earlier handler invocation comes before one stored
\* by a later invocation, whatever the seconds they were stored in.
C17_BatchInArrivalOrder ==
    \A i, j \in 1..Len(listing) : i < j => listing[i] < listing[j]

\* Job j was submitted and its build or its upload failed.
JobFailed(j) == jobs[j].build = "failed" \/ jobs[j].upload = "failed"

\* C18 (as claimed): with no shutdown requested, every submitted job whose
\* build and upload do not fail leads to a video_ready event of that job on
\* the channel.
C18_JobLeadsToEvent ==
    \A j \in JobIds :
        (j \in JobSet) ~> (j \in JobSet /\ (JobFailed(j) \/ EventsOf(j) # {}))

\* C18 (amended): with no shutdown requested, every submitted job whose build
\* and upload do not fail leads to the publish call, and to a video_ready
\* event of that job on the channel unless that call fails.
C18_JobLeadsToPublish ==
    \A j \in JobIds :
        (j \in JobSet) ~>
            (j \in JobSet /\ (JobFailed(j) \/ jobs[j].pub = "failed" \/ EventsOf(j) # {}))

\* C18 witness: no shutdown was requested and the event of a job whose build
\* and upload succeeded is on the channel.
C18_Witness ==
    /\ ~signalled
    /\ \E j \in JobSet :
        /\ jobs[j].build = "ok"
        /\ jobs[j].upload = "ok"
        /\ EventsOf(j) # {}

\* C19: a job goes on from its snapshot only if the snapshot holds at least
\* M images; a job that found fewer has deleted no image, written no
\* artifact, run no upload, left the lock free, its coordinator returned
\* nothing and no event of it was published.
C19_BelowThresholdAborts ==
    /\ \A j \in JobSet :
        /\ jobs[j].started => Cardinality(jobs[j].batch) >= MinImages
        /\ (~jobs[j].started /\ jobs[j].coord \notin {"running", "cancelled"}) =>
              jobs[j].coord = "nothing"
        /\ jobs[j].coord = "nothing" =>
              /\ ~jobs[j].started
              /\ jobs[j].deleted = {}
              /\ jobs[j].build = "none"
              /\ jobs[j].upload = "none"
              /\ jobs[j].pub = "none"
              /\ j \notin videos
              /\ EventsOf(j) = {}
    /\ \A w \in Workers : pool[w].st = "done_none" => ~lock

\* C19 witness: a job found a snapshot that was not empty but below M, its
\* coordinator has returned nothing, the images are still there and the
\* handler is back in the loop.
C19_Witness ==
    /\ hpc = "listen"
    /\ ~lock
    /\ store # {}
    /\ \E j \in JobSet : ~jobs[j].started /\ jobs[j].coord = "nothing"

\* A thread is inside upload_video.
Uploading(w) == pool[w].fn = "upload" /\ pool[w].st \in {"started", "reading"}

\* C20 (as claimed): the lock is held from a job's snapshot until its
\* coordinator has returned (artifact uploaded or upload failed, local
\* artifact deleted), and so in every state in which an upload is executing.
C20_LockHeldThroughUpload ==
    /\ \A w \in Workers : Uploading(w) => lock
    /\ \A j \in JobSet :
        (jobs[j].started /\ jobs[j].build # "failed" /\ jobs[j].coord = "running") => lock

\* C21: whenever no thread is between the snapshot and the end of
\* _generate_video_sync the lock is free, whatever the earlier jobs came to,
\* and a thread waiting at the lock can then take it.
C21_LockFreeWhenNoJob ==
    (\A w \in Workers : ~InCritical(w)) =>
        /\ ~lock
        /\ \A w \in Workers :
            (pool[w].fn = "build" /\ pool[w].st = "started") =>
                ENABLED GenerateVideoSnapshot(w)

\* C21 witness: the build of one job raised, and a later job has taken the
\* lock and its snapshot.
C21_Witness ==
    /\ lock
    /\ \E j, k \in JobSet :
        /\ j < k
        /\ jobs[j].build = "failed"
        /\ jobs[k].started
        /\ jobs[k].build = "none"

\* C22: the images of a snapshot are in the store until the artifact is
\* written; once the build has returned the path, every image of the batch is
\* gone from the store and stays gone; and an upload is submitted only for a
\* job whose build has returned the path.
C22_BuildRetiresInputs ==
    /\ \A w \in Workers :
        /\ InCritical(w) => pool[w].images \subseteq store
        /\ (pool[w].fn = "build" /\ pool[w].st = "written") => pool[w].job \in videos
        /\ pool[w].fn = "upload" => jobs[pool[w].job].build = "ok"
    /\ \A j \in JobSet :
        /\ jobs[j].upload # "none" => jobs[j].build = "ok"
        /\ jobs[j].build = "ok" =>
              (jobs[j].deleted = jobs[j].batch /\ jobs[j].batch \cap store = {})

\* C22 witness: two jobs were built; the upload of the first failed, the
\* upload of the second succeeded, and no image of either batch is in the store.
C22_Witness ==
    \E j, k \in JobSet :
        /\ jobs[j].build = "ok" /\ jobs[j].upload = "failed"
        /\ jobs[k].build = "ok" /\ jobs[k].upload = "ok"
        /\ (jobs[j].batch \cup jobs[k].batch) \cap store = {}

\* A step that adds to the store: the handler is in save_image, the image of
\* the message it handles is the one added, and no thread is in _generate_video_sync.
AppendByHandler ==
    /\ hpc = "saving"
    /\ store' = store \cup {hmsg}
    /\ \A w \in Workers : ~InBuild(w)

\* A step that removes from the store: a thread that holds the lock, with
\* the artifact written, removes images of its snapshot and nothing else.
DeleteByJob ==
    /\ lock
    /\ \E w \in Workers :
        /\ pool[w].fn = "build"
        /\ pool[w].st = "written"
        /\ store' = store \ pool[w].images

\* C23: every step that changes the store is an append by the handler with no
\* build executing, or a deletion of a job's snapshot by the thread that
\* holds the lock.
C23_TwoWriters ==
    [][store' # store => (AppendByHandler \/ DeleteByJob)]_vars

\* C23 witness: a job has deleted its batch and an image appended by a later
\* handler invocation is in the store.
C23_Witness ==
    \E j \in JobSet :
        /\ jobs[j].build = "ok"
        /\ jobs[j].deleted # {}
        /\ \E m \in store : m > jobs[j].trigger

\* The messages buffered by pubsub.listen() are in arrival order, all of them
\* newer than the message whose handler is active.
BufferInArrivalOrder ==
    /\ \A a, b \in 1..Len(inbox) : a < b => inbox[a].id < inbox[b].id
    /\ \A a \in 1..Len(inbox) : hmsg # 0 => inbox[a].id > hmsg

\* A message leaves the buffer: _loop has taken it from pubsub.listen().
Taken == Len(inbox') < Len(inbox)

\* C24: the buffer is in arrival order; the loop takes the oldest buffered
\* message, and takes it only when no handler invocation is active: the
\* handler is at no await, no job is with its coordinator and no work item is
\* in the pool.  A handler that becomes active is that of the message taken.
C24_SequentialDispatch ==
    /\ []BufferInArrivalOrder
    /\ [][Taken =>
            (/\ hpc = "listen"
             /\ hmsg = 0
             /\ inbox' = Tail(inbox)
             /\ \A w \in Workers : pool[w] = NoTask
             /\ \A j \in JobSet : jobs[j].coord # "running"
             /\ hmsg' \in {0, Head(inbox).id})]_vars
    /\ [][(hmsg' # hmsg /\ hmsg' # 0) => Taken]_vars

\* C24 witness: a message that arrived while a job was building or uploading
\* has been handled (its image saved) after that job's handler returned.
C24_Witness ==
    \E j \in JobSet : \E m \in saved :
        /\ arrivedDuring[m] = j
        /\ jobs[j].upload # "none"
        /\ jobs[j].coord \in {"url", "nothing", "raised"}

\* C25 (as claimed): a message that the loop received after the termination
\* signal is not dispatched: when the loop takes it, the loop breaks.
C25_NoDispatchAfterSignal ==
    [][(Taken /\ Head(inbox).late) => hpc' = "dead"]_vars

\* The publish call of job j failed: RedisPublisher.publish returned False.
PublishFailed(j) == jobs[j].pub = "failed"

\* C26: the step in which a publish call fails returns the handler to the
\* loop with the task running and leaves store, artifacts and channel as
\* they are; from then on the handler of that message is not active, the task
\* has not failed, the loop takes the next buffered message, the job's batch
\* is deleted from the store, its artifact is deleted, and no event of that
\* job is on the channel.
C26_PublishFailureAbsorbed ==
    /\ [][\A j \in JobSet : (~PublishFailed(j) /\ PublishFailed(j)') =>
             (/\ hpc' = "listen"
              /\ task' = "running"
              /\ UNCHANGED <<store, videos, outbox, pool>>)]_vars
    /\ [](\A j \in JobSet : PublishFailed(j) =>
             (/\ hmsg # jobs[j].trigger
              /\ task # "failed"
              /\ (task = "running" /\ hpc = "listen" /\ inbox # <<>>) => ENABLED LoopNext
              /\ jobs[j].deleted = jobs[j].batch
              /\ jobs[j].batch \cap store = {}
              /\ j \notin videos
              /\ EventsOf(j) = {}))

\* C26 witness: a publish call failed, and a message that arrived later has
\* been handled and its image saved.
C26_Witness ==
    \E j \in JobSet :
        /\ PublishFailed(j)
        /\ jobs[j].batch # {}
        /\ \E m \in saved : m > jobs[j].trigger

\* The stop() call that found "stopped" clear has finished: it ran to
\* "Shutdown complete" or an exception left it.
FirstStopFinished ==
    \E s \in Stoppers : steps[s].flag > 0 /\ spc[s] \in {"done", "raised"}

\* C30 (as claimed): when the first stop() call has finished, normally or by
\* an exception, the executor has been shut down and the Redis connection
\* closed.
C30_TeardownComplete ==
    FirstStopFinished => (executor = "shutdown" /\ redis = "closed")

\* stop() has been called and no stop() call is under way: each call has
\* returned, has been left by an exception, or has not been made.
StopCallsOver ==
    /\ stopped
    /\ \A s \in Stoppers : spc[s] \in {"idle", "done", "raised"}

\* C9 (as claimed): when the stop() calls are over, each teardown step has
\* been executed exactly once.
C9_EachStepExactlyOnce ==
    StopCallsOver => \A k \in StepNames : SumSteps(k, NumStoppers) = 1

\* C27 (as claimed, in finite form): a shutdown that has begun ends in
\* Stopped: when no stop() call is under way any more, the lifecycle is Stopped.
C27_StopReachesStopped ==
    StopCallsOver => Stopped

\* C28 (as claimed): in the Stopped state no artifact file is in video_dir.
C28_NoArtifactWhenStopped ==
    Stopped => videos = {}

\* C29 (as claimed): every job was submitted by the handler of a message
\* whose image save_image wrote to the store.
C29_BuildTriggeredByAppend ==
    \A j \in JobSet : jobs[j].trigger \in saved

\* C31 (as claimed): while a thread of the pool is executing upload_video for
\* a job, that job's artifact file is in video_dir: it is deleted only after
\* the upload call has returned or raised.
C31_ArtifactPresentDuringUpload ==
    \A w \in Workers : Uploading(w) => pool[w].job \in videos

====
